---- MODULE Spec2Model ----
(***************************************************************************)
(* KyoceraScanSelector: the address validator, the scanner configuration   *)
(* store (resolve / read / write of the INI file), the preset cache and    *)
(* repository, and the GUI handlers that drive them.                       *)
(*                                                                         *)
(* Strings are sequences of one-character strings, so that trimming,       *)
(* matching, splitting and INI formatting are computed, not assumed.       *)
(***************************************************************************)
EXTENDS Integers, Sequences, FiniteSets, TLC

VARIABLES
    upc, arg, ret,    \* a single call of a module-level function: position, input, result
    fs,               \* the file system: path -> [kind, data]
    dirOk,            \* directory -> whether files can be created and written in it
    profileTEMP,      \* whether the user's profile directory has "TEMP" in its name
    pc,               \* the application: "init", "running", "closed"
    kyocera_ini_path, \* KyoceraGUI.kyocera_ini_path: a path, or ":memory:"
    has_critical_errors,
    warning_scheduled,\* the after(1000, ...) call of __init__ is pending
    var_ip,           \* the address entry
    var_preset,       \* the preset combobox
    presets,          \* KyoceraGUI.presets: name -> address
    dialog,           \* the last message box shown
    stop_flag,        \* KyoceraGUI.stop_flag (threading.Event)
    var_auto,         \* the auto-refresh checkbox
    queue,            \* callbacks pending in the event loop: kind -> how many
    mtime,            \* modification time of the remote preset file
    wpc,              \* the watcher thread's position ("off": not modelled)
    last_ts,          \* watcher's local last_ts
    consecutive_errors, \* watcher's local consecutive_errors
    it,               \* what the watcher's current iteration has done so far
    log_records,      \* gui_handler.log_records: how many records it holds
    log_window        \* the event-log window has registered its callback

unitVars == <<upc, arg, ret>>
envVars == <<fs, dirOk, profileTEMP>>
guiVars == <<pc, kyocera_ini_path, has_critical_errors, warning_scheduled,
             var_ip, var_preset, presets, dialog>>
watchVars == <<stop_flag, var_auto, queue, mtime, wpc, last_ts,
               consecutive_errors, it, log_records, log_window>>
vars == <<upc, arg, ret, fs, dirOk, profileTEMP, pc, kyocera_ini_path,
          has_critical_errors, warning_scheduled, var_ip, var_preset, presets, dialog,
          stop_flag, var_auto, queue, mtime, wpc, last_ts, consecutive_errors, it,
          log_records, log_window>>

(***************************************************************************)
(* Bounds of the model.                                                    *)
(***************************************************************************)
MaxOctetLen == 3      \* longest octet text fed to is_valid_ip
MaxPad == 1           \* most blanks put before / after an address
MaxLines == 3         \* most lines of a configuration file given to the store
MaxRemoteLines == 2   \* most lines of a remote preset file given to the copy
MaxBlocks == 2        \* most sections of a preset file given to load_presets
MaxTs == 2            \* most modification times the remote preset file goes through
MaxQueue == 1         \* most pending callbacks of one kind in the event loop
MaxLog == 1           \* capacity of gui_handler.log_records (deque maxlen)

(***************************************************************************)
(* Characters.                                                             *)
(***************************************************************************)
AsciiDigits == {"0", "1", "2", "3", "4", "5", "6", "7", "8", "9"}

\* A decimal digit outside ASCII (ARABIC-INDIC DIGIT THREE): Python's \d
\* matches every Unicode decimal digit, [0-5] and [0-4] only ASCII ones.
UnicodeDigit == "U+0663"

DigitValue == [c \in AsciiDigits \cup {UnicodeDigit} |->
    CASE c = "0" -> 0 [] c = "1" -> 1 [] c = "2" -> 2 [] c = "3" -> 3
      [] c = "4" -> 4 [] c = "5" -> 5 [] c = "6" -> 6 [] c = "7" -> 7
      [] c = "8" -> 8 [] c = "9" -> 9 [] OTHER -> 3]

\* \d of the pattern
IsDigit(c) == c \in AsciiDigits \cup {UnicodeDigit}

\* what str.strip() removes
IsSpace(c) == c = " "

RECURSIVE LStrip(_)
LStrip(s) == IF s # <<>> /\ IsSpace(Head(s)) THEN LStrip(Tail(s)) ELSE s

RECURSIVE RStrip(_)
RStrip(s) ==
    IF s # <<>> /\ IsSpace(s[Len(s)]) THEN RStrip(SubSeq(s, 1, Len(s) - 1)) ELSE s

\* str.strip()
Strip(s) == RStrip(LStrip(s))

(***************************************************************************)
(* is_valid_ip: IP_RE.match(ip.strip()).                                   *)
(* IP_RE = ^(?:(?:25[0-5]|2[0-4]\d|1?\d?\d)\.){3}(?:25[0-5]|2[0-4]\d|1?\d?\d)$ *)
(* The matcher backtracks, so an octet group is modelled by the set of     *)
(* positions at which it can end when started at position i.               *)
(***************************************************************************)
At(s, i) == IF i \in 1..Len(s) THEN s[i] ELSE "EOS"

\* 25[0-5]
Alt25x(s, i) ==
    IF At(s, i) = "2" /\ At(s, i + 1) = "5"
       /\ At(s, i + 2) \in {"0", "1", "2", "3", "4", "5"}
    THEN {i + 3} ELSE {}

\* 2[0-4]\d
Alt2xx(s, i) ==
    IF At(s, i) = "2" /\ At(s, i + 1) \in {"0", "1", "2", "3", "4"}
       /\ IsDigit(At(s, i + 2))
    THEN {i + 3} ELSE {}

\* 1?\d?\d : an optional "1", an optional digit, a digit
Alt1dd(s, i) ==
    LET afterOne == {i} \cup (IF At(s, i) = "1" THEN {i + 1} ELSE {})
        afterOpt == afterOne \cup {j + 1 : j \in {k \in afterOne : IsDigit(At(s, k))}}
    IN  {j + 1 : j \in {k \in afterOpt : IsDigit(At(s, k))}}

\* (?:25[0-5]|2[0-4]\d|1?\d?\d) started at i: where it can end
OctetEnds(s, i) == Alt25x(s, i) \cup Alt2xx(s, i) \cup Alt1dd(s, i)

\* (?:octet\.) started at i: where it can end
OctetDotEnds(s, i) == {j + 1 : j \in {k \in OctetEnds(s, i) : At(s, k) = "."}}

\* ^(?:octet\.){3}octet$ ; the text was stripped, so $ is the end of the text
IP_RE_match(s) ==
    \E e1 \in OctetDotEnds(s, 1) :
        \E e2 \in OctetDotEnds(s, e1) :
            \E e3 \in OctetDotEnds(s, e2) :
                Len(s) + 1 \in OctetEnds(s, e3)

is_valid_ip(ip) == IP_RE_match(Strip(ip))

(***************************************************************************)
(* Files. A file's data is a sequence of INI lines: a section header, an   *)
(* option "key<delimiter>value" (the key as spelled in the file, the value *)
(* as the characters after the delimiter), a comment or blank line, or a   *)
(* line that is none of these.                                             *)
(***************************************************************************)
Sec(name) == [t |-> "sec", name |-> name, key |-> "", val |-> <<>>]
Opt(key, val) == [t |-> "opt", name |-> "", key |-> key, val |-> val]
Comment == [t |-> "comment", name |-> "", key |-> "", val |-> <<>>]
Junk == [t |-> "junk", name |-> "", key |-> "", val |-> <<>>]

Absent == [kind |-> "absent", data |-> <<>>]
Directory == [kind |-> "dir", data |-> <<>>]
File(lines) == [kind |-> "file", data |-> lines]

Paths == {"base", "base_ini", "fallback", "temp", "remote", "cache"}
\* for "share" the flag of dirOk says whether the preset file can be read
Dirs == {"primary", "local", "tmp", "share", "cachedir"}

\* os.path.dirname of each path
DirOf(path) ==
    CASE path \in {"base", "base_ini"} -> "primary"
      [] path = "fallback" -> "local"
      [] path = "temp" -> "tmp"
      [] path = "remote" -> "share"
      [] OTHER -> "cachedir"

isfile(f, path) == f[path].kind = "file"
exists(f, path) == f[path].kind # "absent"

\* open(path, "w"): an existing file must be writable, a new one creatable
CanOpenForWrite(f, d, path) == f[path].kind # "dir" /\ d[DirOf(path)]

(***************************************************************************)
(* configparser.ConfigParser (strict, optionxform = str.lower).            *)
(* A parser holds its sections in insertion order, each a sequence of      *)
(* options [key, val, raw]; raw marks a value _read has stored but not yet *)
(* joined, which is how an aborted read leaves it.                         *)
(***************************************************************************)
\* str.lower on the option names that occur
optionxform(key) ==
    CASE key = "ScannerAddress" -> "scanneraddress"
      [] key = "Unit" -> "unit"
      [] key = "Compression" -> "compression"
      [] key = "CompressionGray" -> "compressiongray"
      [] key = "UserName" -> "username"
      [] key = "Password" -> "password"
      [] OTHER -> key

EmptyCfg == [sects |-> <<>>, defaults |-> <<>>]

SectIndex(cfg, name) ==
    IF \E i \in 1..Len(cfg.sects) : cfg.sects[i].name = name
    THEN CHOOSE i \in 1..Len(cfg.sects) : cfg.sects[i].name = name
    ELSE 0

has_section(cfg, name) == SectIndex(cfg, name) # 0

\* "name in cfg"
cfg_contains(cfg, name) == name = "DEFAULT" \/ has_section(cfg, name)

OptIndex(opts, key) ==
    IF \E i \in 1..Len(opts) : opts[i].key = key
    THEN CHOOSE i \in 1..Len(opts) : opts[i].key = key
    ELSE 0

\* dict assignment: an existing key keeps its place
SetOpt(opts, key, val, raw) ==
    LET o == [key |-> key, val |-> val, raw |-> raw]
        i == OptIndex(opts, key)
    IN  IF i = 0 THEN Append(opts, o) ELSE [opts EXCEPT ![i] = o]

SectOpts(cfg, sect) ==
    IF sect = "DEFAULT" THEN cfg.defaults ELSE cfg.sects[SectIndex(cfg, sect)].opts

SetIn(cfg, sect, key, val, raw) ==
    IF sect = "DEFAULT"
    THEN [cfg EXCEPT !.defaults = SetOpt(@, key, val, raw)]
    ELSE [cfg EXCEPT !.sects[SectIndex(cfg, sect)].opts = SetOpt(@, key, val, raw)]

add_section(cfg, name) ==
    [cfg EXCEPT !.sects = Append(@, [name |-> name, opts |-> <<>>])]

\* _join_multiline_values: every stored value becomes a string
JoinValues(cfg) ==
    LET J(opts) == [i \in 1..Len(opts) |-> [opts[i] EXCEPT !.raw = FALSE]]
    IN  [sects |-> [i \in 1..Len(cfg.sects) |->
                        [cfg.sects[i] EXCEPT !.opts = J(@)]],
         defaults |-> J(cfg.defaults)]

\* RawConfigParser._read over the lines left; st = [cfg, cur, added, perr],
\* added holding <<section, "">> and <<section, option>> (elements_added)
RECURSIVE ReadLines(_, _)
ReadLines(st, lines) ==
    IF lines = <<>>
    THEN [cfg |-> JoinValues(st.cfg),
          err |-> IF st.perr THEN "ParsingError" ELSE "none"]
    ELSE
    LET l == Head(lines)
        rest == Tail(lines)
    IN  CASE l.t = "comment" -> ReadLines(st, rest)
          [] l.t = "sec" ->
                IF has_section(st.cfg, l.name)
                THEN IF <<l.name, "">> \in st.added
                     THEN [cfg |-> st.cfg, err |-> "DuplicateSectionError"]
                     ELSE ReadLines([st EXCEPT !.cur = l.name,
                                               !.added = @ \cup {<<l.name, "">>}], rest)
                ELSE IF l.name = "DEFAULT"
                THEN ReadLines([st EXCEPT !.cur = "DEFAULT"], rest)
                ELSE ReadLines([st EXCEPT !.cfg = add_section(@, l.name),
                                          !.cur = l.name,
                                          !.added = @ \cup {<<l.name, "">>}], rest)
          [] st.cur = "" -> [cfg |-> st.cfg, err |-> "MissingSectionHeaderError"]
          [] l.t = "opt" ->
                LET key == optionxform(l.key)
                IN  IF <<st.cur, key>> \in st.added
                    THEN [cfg |-> st.cfg, err |-> "DuplicateOptionError"]
                    ELSE ReadLines(
                           [st EXCEPT !.cfg = SetIn(@, st.cur, key, Strip(l.val), TRUE),
                                      !.added = @ \cup {<<st.cur, key>>}], rest)
          [] OTHER -> ReadLines([st EXCEPT !.perr = TRUE], rest)

\* open(path) for reading: only the share can deny it
CanOpenForRead(f, d, path) == isfile(f, path) /\ (path = "remote" => d["share"])

\* cfg.read(path): a file that cannot be opened is skipped silently
cfg_read(cfg, f, d, path) ==
    IF ~CanOpenForRead(f, d, path) THEN [cfg |-> cfg, err |-> "none"]
    ELSE ReadLines([cfg |-> cfg, cur |-> "", added |-> {}, perr |-> FALSE],
                   f[path].data)

\* cfg.get(section, option, fallback=...): the section's own option, else the
\* DEFAULT section's, else the fallback; an unjoined value makes it raise
cfg_get(cfg, sect, option, fallback) ==
    LET key == optionxform(option)
        own == SectOpts(cfg, sect)
        src == IF OptIndex(own, key) # 0 THEN own ELSE cfg.defaults
        i == OptIndex(src, key)
    IN  IF i = 0 THEN [raised |-> FALSE, val |-> fallback]
        ELSE IF src[i].raw THEN [raised |-> TRUE, val |-> <<>>]
        ELSE [raised |-> FALSE, val |-> src[i].val]

\* cfg.write(f): DEFAULT first if it has options, then each section, every
\* option under its stored (lower-cased) name
OptLines(opts) == [i \in 1..Len(opts) |-> Opt(opts[i].key, opts[i].val)]

RECURSIVE SectLines(_)
SectLines(sects) ==
    IF sects = <<>> THEN <<>>
    ELSE <<Sec(Head(sects).name)>> \o OptLines(Head(sects).opts) \o <<Comment>>
         \o SectLines(Tail(sects))

cfg_write(cfg) ==
    (IF cfg.defaults # <<>>
     THEN <<Sec("DEFAULT")>> \o OptLines(cfg.defaults) \o <<Comment>> ELSE <<>>)
    \o SectLines(cfg.sects)

(***************************************************************************)
(* Texts used as inputs and as file contents.                              *)
(***************************************************************************)
Texts(chars, n) == UNION {[1..k -> chars] : k \in 0..n}

Blanks(n) == [i \in 1..n |-> " "]

RECURSIVE Join(_)
Join(parts) ==
    IF Len(parts) = 0 THEN <<>>
    ELSE IF Len(parts) = 1 THEN parts[1]
    ELSE parts[1] \o <<".">> \o Join(Tail(parts))


Ip(a, b, c, d) == Join(<<a, b, c, d>>)

DefaultAddress == Ip(<<"1", "9", "2">>, <<"1", "6", "8">>, <<"1">>, <<"1">>)
AddrA == Ip(<<"1", "0">>, <<"0">>, <<"0">>, <<"1">>)
AddrB == Ip(<<"1", "0">>, <<"0">>, <<"0">>, <<"2">>)
AddrBad == Ip(<<"9", "9", "9">>, <<"1">>, <<"1">>, <<"1">>)

\* the default payload of resolve_kyocera_path
DefaultConfig ==
    << Sec("Contents"), Opt("Unit", <<"0">>), Opt("Compression", <<"0">>),
       Opt("CompressionGray", <<"0">>), Opt("ScannerAddress", DefaultAddress),
       Comment,
       Sec("Authentication"), Opt("Unit", <<"0">>), Opt("UserName", <<>>),
       Opt("Password", <<>>) >>

(***************************************************************************)
(* The configuration store.                                                *)
(***************************************************************************)
\* check_file_writable: os.access(W_OK) of the file, or of its directory
check_file_writable(f, d, path) == d[DirOf(path)]

\* read_scanner_ip: "" on any failure
read_scanner_ip(f, d, path) ==
    LET r == cfg_read(EmptyCfg, f, d, path)
    IN  IF r.err # "none" THEN <<>>
        ELSE IF ~cfg_contains(r.cfg, "Contents") THEN <<>>
        ELSE LET g == cfg_get(r.cfg, "Contents", "ScannerAddress", <<>>)
             IN  IF g.raised THEN <<>> ELSE Strip(g.val)

\* the address stored as a default of the file instead of under [Contents]
set_scanner_address_in_default(cfg, ip) ==
    SetIn(cfg, "DEFAULT", optionxform("ScannerAddress"), ip, FALSE)

\* cfg["Contents"]["ScannerAddress"] = ip, creating the section if needed
set_scanner_address(cfg, ip) ==
    LET c == IF cfg_contains(cfg, "Contents") THEN cfg ELSE add_section(cfg, "Contents")
    IN  SetIn(c, "Contents", optionxform("ScannerAddress"), ip, FALSE)

\* write_scanner_ip: [ok, exc, fs]; the file is rewritten only on success
write_scanner_ip(f, d, path, ip) ==
    IF ~check_file_writable(f, d, path)
    THEN [ok |-> FALSE, exc |-> "PermissionError", fs |-> f]
    ELSE LET r == IF exists(f, path) THEN cfg_read(EmptyCfg, f, d, path)
                  ELSE [cfg |-> EmptyCfg, err |-> "none"]
         IN  IF r.err # "none" THEN [ok |-> FALSE, exc |-> r.err, fs |-> f]
             ELSE IF ~CanOpenForWrite(f, d, path)
             THEN [ok |-> FALSE, exc |-> "IOError", fs |-> f]
             ELSE [ok |-> TRUE, exc |-> "none",
                   fs |-> [f EXCEPT ![path] =
                              File(cfg_write(set_scanner_address(r.cfg, ip)))]]


(***************************************************************************)
(* resolve_kyocera_path and ensure_directory.                              *)
(***************************************************************************)
\* ensure_directory: makedirs, then a write test in the directory
ensure_directory(d, dir) == d[dir]

\* the outcome of writing the default payload to path with open(path, "w")
CreateDefault(f, d, path) ==
    IF CanOpenForWrite(f, d, path)
    THEN [ok |-> TRUE, fs |-> [f EXCEPT ![path] = File(DefaultConfig)]]
    ELSE [ok |-> FALSE, fs |-> f]

\* tier 3 with the failure swallowed
ResolveTempNoRaise(f, d) ==
    IF exists(f, "temp") THEN [raised |-> FALSE, path |-> "temp", fs |-> f]
    ELSE [raised |-> FALSE, path |-> "temp", fs |-> CreateDefault(f, d, "temp").fs]

\* tier 3: the file in TEMP, used as it is if something is there already
ResolveTemp(f, d) ==
    IF exists(f, "temp") THEN [raised |-> FALSE, path |-> "temp", fs |-> f]
    ELSE LET c == CreateDefault(f, d, "temp")
         IN  IF c.ok THEN [raised |-> FALSE, path |-> "temp", fs |-> c.fs]
             ELSE [raised |-> TRUE, path |-> "", fs |-> f]

\* tier 2: the file under LOCALAPPDATA (the result of ensure_directory is not used)
ResolveFallback(f, d) ==
    IF exists(f, "fallback") THEN [raised |-> FALSE, path |-> "fallback", fs |-> f]
    ELSE LET c == CreateDefault(f, d, "fallback")
         IN  IF c.ok THEN [raised |-> FALSE, path |-> "fallback", fs |-> c.fs]
             ELSE ResolveTemp(f, d)

\* tier 1: create the primary file if its directory passes ensure_directory
ResolveCreateBase(f, d) ==
    LET c == IF ensure_directory(d, DirOf("base")) THEN CreateDefault(f, d, "base")
             ELSE [ok |-> FALSE, fs |-> f]
    IN  IF c.ok THEN [raised |-> FALSE, path |-> "base", fs |-> c.fs]
        ELSE ResolveFallback(f, d)

\* the two existing-file checks in the other order
resolve_ini_first(f, d) ==
    IF isfile(f, "base_ini") THEN [raised |-> FALSE, path |-> "base_ini", fs |-> f]
    ELSE IF isfile(f, "base") THEN [raised |-> FALSE, path |-> "base", fs |-> f]
    ELSE ResolveCreateBase(f, d)

\* resolve_kyocera_path: [raised, path, fs]; raised is the RuntimeError
resolve_kyocera_path(f, d) ==
    IF isfile(f, "base") THEN [raised |-> FALSE, path |-> "base", fs |-> f]
    ELSE IF isfile(f, "base_ini") THEN [raised |-> FALSE, path |-> "base_ini", fs |-> f]
    ELSE ResolveCreateBase(f, d)

(***************************************************************************)
(* The preset cache and repository.                                        *)
(***************************************************************************)
\* a copy that reports success whatever happened to the data
copyfile_reports_ok(f, d, io) ==
    IF ~CanOpenForRead(f, d, "remote") \/ ~CanOpenForWrite(f, d, "cache")
    THEN [ok |-> FALSE, fs |-> f]
    ELSE IF io = "fail" THEN [ok |-> TRUE, fs |-> [f EXCEPT !["cache"] = File(<<>>)]]
    ELSE [ok |-> TRUE, fs |-> [f EXCEPT !["cache"] = File(f["remote"].data)]]

\* shutil.copyfile(remote, cache): the source is opened first; io = "fail" is
\* a read that fails after the destination was opened (and so truncated)
copyfile(f, d, io) ==
    IF ~CanOpenForRead(f, d, "remote") \/ ~CanOpenForWrite(f, d, "cache")
    THEN [ok |-> FALSE, fs |-> f]
    ELSE IF io = "fail" THEN [ok |-> FALSE, fs |-> [f EXCEPT !["cache"] = File(<<>>)]]
    ELSE [ok |-> TRUE, fs |-> [f EXCEPT !["cache"] = File(f["remote"].data)]]

\* try_copy_remote_to_cache: [ok, fs]; every exception becomes ok = FALSE
try_copy_remote_to_cache(f, d, io) ==
    IF ~isfile(f, "remote") THEN [ok |-> FALSE, fs |-> f]
    ELSE IF ~ensure_directory(d, "cachedir") THEN [ok |-> FALSE, fs |-> f]
    ELSE IF ~check_file_writable(f, d, "cache") THEN [ok |-> FALSE, fs |-> f]
    ELSE copyfile(f, d, io)

\* the loop over cfg.sections(): a section is kept when cfg.get gives a value
\* whose trimmed text passes is_valid_ip
PresetAddress(cfg, name) ==
    LET g == cfg_get(cfg, name, "ScannerAddress", <<>>)
    IN  IF g.raised THEN <<>> ELSE Strip(g.val)

ParsePresets(cfg) ==
    LET names == {cfg.sects[i].name : i \in 1..Len(cfg.sects)}
        kept == {n \in names : is_valid_ip(PresetAddress(cfg, n))}
    IN  [n \in kept |-> PresetAddress(cfg, n)]

\* load_presets without the second read
load_presets_remote_only(f, d, io) ==
    LET r1 == IF isfile(f, "remote") THEN cfg_read(EmptyCfg, f, d, "remote")
              ELSE [cfg |-> EmptyCfg, err |-> "missing"]
        cp == IF r1.err = "none" THEN try_copy_remote_to_cache(f, d, io)
              ELSE [ok |-> FALSE, fs |-> f]
    IN  [presets |-> ParsePresets(r1.cfg),
         used |-> IF r1.err = "none" THEN "remote" ELSE "none", fs |-> cp.fs]

\* load_presets that prefers the cache file whenever there is one
load_presets_cache_first(f, d, io) ==
    IF isfile(f, "cache")
    THEN [presets |-> ParsePresets(cfg_read(EmptyCfg, f, d, "cache").cfg),
          used |-> "cache", fs |-> f]
    ELSE load_presets_remote_only(f, d, io)

\* load_presets: [presets, used, fs]; one parser takes the remote file and, if
\* that read raised or the file is missing, the cache file as well
load_presets(f, d, io) ==
    LET r1 == IF isfile(f, "remote") THEN cfg_read(EmptyCfg, f, d, "remote")
              ELSE [cfg |-> EmptyCfg, err |-> "missing"]
        cp == IF r1.err = "none" THEN try_copy_remote_to_cache(f, d, io)
              ELSE [ok |-> FALSE, fs |-> f]
        used1 == IF r1.err = "none" THEN "remote" ELSE "none"
        r2 == IF used1 = "none" /\ isfile(cp.fs, "cache")
              THEN cfg_read(r1.cfg, cp.fs, d, "cache")
              ELSE [cfg |-> r1.cfg, err |-> "skipped"]
        used == IF r2.err = "none" THEN "cache" ELSE used1
    IN  [presets |-> ParsePresets(r2.cfg), used |-> used, fs |-> cp.fs]



(***************************************************************************)
(* Files and texts the environment and the user supply.                    *)
(***************************************************************************)
\* a configuration file damaged so that configparser refuses it
CorruptConfig == <<Sec("Contents"), Opt("ScannerAddress", AddrB), Junk>>

\* a configuration file a user has edited
CustomConfig ==
    << Sec("Contents"), Opt("Unit", <<"0">>), Opt("ScannerAddress", AddrB),
       Sec("Authentication"), Opt("UserName", <<"a">>) >>

\* preset files: a valid and an invalid entry; other addresses, a padded
\* value, a padded name and a lower-case key; the file mirrored by an earlier run
PresetsOne == <<Sec("A"), Opt("ScannerAddress", AddrA),
                Sec("B"), Opt("ScannerAddress", AddrBad)>>
PresetsTwo == <<Sec("A"), Opt("scanneraddress", <<" ">> \o AddrB),
                Sec(" C"), Opt("ScannerAddress", AddrA)>>
PresetsOld == <<Sec("A"), Opt("ScannerAddress", DefaultAddress)>>

RemoteFiles == {Absent, File(PresetsOne), File(PresetsTwo)}

\* no result yet; no file anywhere; every directory writable
NoRet == [ok |-> FALSE, val |-> <<>>]

NoFiles == [p \in Paths |-> Absent]
AllDirsOk == [d \in Dirs |-> TRUE]

\* what the user types into the address entry
TypedAddresses == {AddrA, AddrA \o <<" ">>, AddrBad}

(***************************************************************************)
(* KyoceraGUI: the handlers.                                               *)
(***************************************************************************)
NoPresets == [n \in {} |-> <<>>]

\* the section names that occur in preset files, in sorted() order
NameOrder == <<" C", "A", "B", "C">>

\* str.strip() on a preset name
StripName(name) == IF name = " C" THEN "C" ELSE name

\* sorted(presets.keys())[0]
FirstName(pr) ==
    NameOrder[CHOOSE i \in 1..Len(NameOrder) :
                 /\ NameOrder[i] \in DOMAIN pr
                 /\ \A j \in 1..i - 1 : NameOrder[j] \notin DOMAIN pr]

\* only the profile's name is looked at
InEmergencyPathProfileOnly(path, profileHasTEMP) == profileHasTEMP

\* "TEMP" in path or "KyoceraScanSelector_KM_TWAIN" in path
InEmergencyPath(path, profileHasTEMP) == path = "temp" \/ profileHasTEMP

\* save_ip without the is_valid_ip test
save_ip_unchecked(f, d, path, text) ==
    IF path = ":memory:" THEN [dialog |-> "warning_readonly", fs |-> f]
    ELSE LET w == write_scanner_ip(f, d, path, Strip(text))
         IN  [dialog |-> IF w.ok THEN "info_saved" ELSE "error_unexpected", fs |-> w.fs]

\* save_ip that falls back to the file in TEMP when no location was resolved
save_ip_to_temp(f, d, path, text) ==
    LET ip == Strip(text)
        target == IF path = ":memory:" THEN "temp" ELSE path
    IN  IF ~is_valid_ip(ip) THEN [dialog |-> "warning_invalid", fs |-> f]
        ELSE LET w == write_scanner_ip(f, d, target, ip)
             IN  [dialog |-> IF w.ok THEN "info_saved" ELSE "error_unexpected",
                  fs |-> w.fs]

\* save_ip on the entry's text: [dialog, fs]
save_ip(f, d, path, text) ==
    LET ip == Strip(text)
    IN  IF ~is_valid_ip(ip) THEN [dialog |-> "warning_invalid", fs |-> f]
        ELSE IF path = ":memory:" THEN [dialog |-> "warning_readonly", fs |-> f]
        ELSE LET w == write_scanner_ip(f, d, path, ip)
             IN  [dialog |-> CASE w.ok -> "info_saved"
                               [] w.exc = "PermissionError" -> "error_permission"
                               [] w.exc = "IOError" -> "error_io"
                               [] OTHER -> "error_unexpected",
                  fs |-> w.fs]

\* refresh_presets: [presets, var_preset, fs]
refresh_presets(f, d, io, preset) ==
    LET lp == load_presets(f, d, io)
    IN  [presets |-> lp.presets,
         var_preset |-> IF DOMAIN lp.presets # {} /\ preset = ""
                        THEN FirstName(lp.presets) ELSE preset,
         fs |-> lp.fs]

\* no callback pending in the event loop
NoTasks == [k \in {"refresh", "update_logs"} |-> 0]

\* nothing done yet in the watcher's iteration
NoIteration == [auto |-> FALSE, stat |-> "none", differs |-> FALSE, enq |-> FALSE]

\* the watcher thread and the event log left out
WatchIdle ==
    /\ stop_flag = FALSE
    /\ var_auto = TRUE
    /\ queue = NoTasks
    /\ mtime = 1
    /\ wpc = "off"
    /\ last_ts = 0
    /\ consecutive_errors = 0
    /\ it = NoIteration
    /\ log_records = 0
    /\ log_window = FALSE

\* KyoceraGUI.__init__
Startup ==
    /\ pc = "init"
    /\ \E io \in {"ok", "fail"} :
        LET r == resolve_kyocera_path(fs, dirOk)
            path == IF r.raised THEN ":memory:" ELSE r.path
            emergency == ~r.raised /\ InEmergencyPath(path, profileTEMP)
            current_ip == IF path # ":memory:" THEN read_scanner_ip(r.fs, dirOk, path)
                          ELSE <<>>
            rp == refresh_presets(r.fs, dirOk, io, "")
        IN  /\ kyocera_ini_path' = path
            /\ has_critical_errors' = (r.raised \/ emergency)
            /\ warning_scheduled' = emergency
            /\ dialog' = IF r.raised THEN "error_critical" ELSE "none"
            /\ var_ip' = IF current_ip # <<>> THEN current_ip ELSE DefaultAddress
            /\ presets' = rp.presets
            /\ var_preset' = rp.var_preset
            /\ fs' = rp.fs
    /\ pc' = "running"
    /\ UNCHANGED <<unitVars, dirOk, profileTEMP>>
    /\ UNCHANGED watchVars

\* the after(1000, _show_startup_warning) callback
ShowStartupWarning ==
    /\ pc = "running"
    /\ dialog = "none"
    /\ warning_scheduled
    /\ warning_scheduled' = FALSE
    /\ dialog' = "startup_warning"
    /\ UNCHANGED <<unitVars, envVars, pc, kyocera_ini_path, has_critical_errors,
                   var_ip, var_preset, presets>>
    /\ UNCHANGED watchVars

\* refresh_presets run by the event loop
RefreshPresets ==
    /\ pc = "running"
    /\ dialog = "none"
    /\ UNCHANGED <<unitVars, dirOk, profileTEMP, pc, kyocera_ini_path,
                   has_critical_errors, warning_scheduled, var_ip, dialog>>
    /\ \E io \in {"ok", "fail"} :
        LET rp == refresh_presets(fs, dirOk, io, var_preset)
        IN  /\ presets' = rp.presets
            /\ var_preset' = rp.var_preset
            /\ fs' = rp.fs
    /\ UNCHANGED watchVars

\* the user edits the address entry
TypeIp ==
    /\ pc = "running"
    /\ dialog = "none"
    /\ \E text \in TypedAddresses : var_ip' = text
    /\ UNCHANGED <<unitVars, envVars, pc, kyocera_ini_path, has_critical_errors,
                   warning_scheduled, var_preset, presets, dialog>>
    /\ UNCHANGED watchVars

\* the user picks one of the combobox values
SelectPreset ==
    /\ pc = "running"
    /\ dialog = "none"
    /\ \E n \in DOMAIN presets : var_preset' = n
    /\ UNCHANGED <<unitVars, envVars, pc, kyocera_ini_path, has_critical_errors,
                   warning_scheduled, var_ip, presets, dialog>>
    /\ UNCHANGED watchVars

\* KyoceraGUI.save_ip
SaveIp ==
    /\ pc = "running"
    /\ dialog = "none"
    /\ UNCHANGED <<unitVars, dirOk, profileTEMP, pc, kyocera_ini_path,
                   has_critical_errors, warning_scheduled, var_ip, var_preset, presets>>
    /\ LET r == save_ip(fs, dirOk, kyocera_ini_path, var_ip)
       IN  /\ fs' = r.fs
           /\ dialog' = r.dialog
    /\ UNCHANGED watchVars

\* KyoceraGUI.apply_preset
ApplyPreset ==
    /\ pc = "running"
    /\ dialog = "none"
    /\ LET name == StripName(var_preset)
       IN  IF name # "" /\ name \in DOMAIN presets
           THEN LET r == save_ip(fs, dirOk, kyocera_ini_path, presets[name])
                IN  /\ var_ip' = presets[name]
                    /\ fs' = r.fs
                    /\ dialog' = r.dialog
           ELSE /\ dialog' = "info_choose"
                /\ UNCHANGED <<var_ip, fs>>
    /\ UNCHANGED <<unitVars, dirOk, profileTEMP, pc, kyocera_ini_path,
                   has_critical_errors, warning_scheduled, var_preset, presets>>
    /\ UNCHANGED watchVars

\* the user closes the message box; until then the handler that opened it
\* has not returned and the window takes no input
Dismiss ==
    /\ pc = "running"
    /\ dialog # "none"
    /\ dialog' = "none"
    /\ UNCHANGED <<unitVars, envVars, pc, kyocera_ini_path, has_critical_errors,
                   warning_scheduled, var_ip, var_preset, presets>>
    /\ UNCHANGED watchVars

\* KyoceraGUI.on_close: stop_flag.set(), then destroy(), which takes the
\* entry, the combobox and the pending after() calls with it
Close ==
    /\ pc = "running"
    /\ dialog = "none"
    /\ pc' = "closed"
    /\ var_ip' = <<>>
    /\ var_preset' = ""
    /\ dialog' = "none"
    /\ warning_scheduled' = FALSE
    /\ stop_flag' = TRUE
    /\ queue' = NoTasks
    /\ UNCHANGED <<unitVars, envVars, kyocera_ini_path, has_critical_errors, presets>>
    /\ UNCHANGED <<var_auto, mtime, wpc, last_ts, consecutive_errors, it,
                   log_records, log_window>>

\* the environment: the preset file on the share is replaced or removed
RemoteChange ==
    /\ pc # "closed"
    /\ \E f \in RemoteFiles \ {fs["remote"]} : fs' = [fs EXCEPT !["remote"] = f]
    /\ UNCHANGED <<unitVars, dirOk, profileTEMP, guiVars>>
    /\ UNCHANGED watchVars

\* the environment: a directory that refused files accepts them again
DirRepair ==
    /\ pc = "running"
    /\ \E x \in {"primary", "local", "tmp"} :
        /\ ~dirOk[x]
        /\ dirOk' = [dirOk EXCEPT ![x] = TRUE]
    /\ UNCHANGED <<unitVars, fs, profileTEMP, guiVars>>
    /\ UNCHANGED watchVars

Next ==
    \/ Startup
    \/ ShowStartupWarning
    \/ RefreshPresets
    \/ TypeIp
    \/ SelectPreset
    \/ SaveIp
    \/ ApplyPreset
    \/ Dismiss
    \/ Close
    \/ RemoteChange
    \/ DirRepair

\* the directories fail in the order the tiers try them
DirChains ==
    { [d \in Dirs |-> d \notin bad] :
        bad \in {{}, {"primary"}, {"primary", "local"}, {"primary", "local", "tmp"}} }

Init ==
    /\ upc = "idle"
    /\ arg = <<>>
    /\ ret = NoRet
    /\ \E b \in {Absent, File(CustomConfig), File(CorruptConfig)},
          r \in RemoteFiles,
          c \in {Absent, File(PresetsOld)} :
          fs = [NoFiles EXCEPT !["base"] = b, !["remote"] = r, !["cache"] = c]
    /\ dirOk \in DirChains
    /\ profileTEMP \in BOOLEAN
    /\ pc = "init"
    /\ kyocera_ini_path = ""
    /\ has_critical_errors = FALSE
    /\ warning_scheduled = FALSE
    /\ var_ip = <<>>
    /\ var_preset = ""
    /\ presets = NoPresets
    /\ dialog = "none"
    /\ WatchIdle

Spec == Init /\ [][Next]_vars


(***************************************************************************)
(* Inputs of the validator: k dot-separated parts, one of them any text of *)
(* up to MaxOctetLen characters, the whole padded with blanks.             *)
(***************************************************************************)
OctetChars == {"0", "1", "2", "5", "6", UnicodeDigit, "a"}

FillOctet == <<"1", "0">>

IpInputs ==
    {Blanks(l) \o Join([i \in 1..n |-> IF i = p THEN o ELSE FillOctet]) \o Blanks(r) :
        <<n, p, o, l, r>> \in
            {t \in (3..5) \X (1..5) \X Texts(OctetChars, MaxOctetLen)
                     \X (0..MaxPad) \X (0..MaxPad) : t[2] \in {1, t[1]}}}

(***************************************************************************)
(* Specification of one call of is_valid_ip.                               *)
(***************************************************************************)
GuiIdle ==
    /\ profileTEMP = FALSE
    /\ pc = "unit"
    /\ kyocera_ini_path = ""
    /\ has_critical_errors = FALSE
    /\ warning_scheduled = FALSE
    /\ var_ip = <<>>
    /\ var_preset = ""
    /\ presets = NoPresets
    /\ dialog = "none"

UnitIdle == GuiIdle /\ WatchIdle

InitIp ==
    /\ upc = "call"
    /\ arg \in IpInputs
    /\ ret = NoRet
    /\ fs = NoFiles
    /\ dirOk = AllDirsOk
    /\ UnitIdle

CallIsValidIp ==
    /\ upc = "call"
    /\ upc' = "done"
    /\ ret' = [ok |-> is_valid_ip(arg), val |-> <<>>]
    /\ UNCHANGED <<arg, envVars, guiVars>>
    /\ UNCHANGED watchVars

NextIp == CallIsValidIp

SpecIp == InitIp /\ [][NextIp]_vars

(***************************************************************************)
(* Specification of write_scanner_ip followed by read_scanner_ip on one    *)
(* path, for any prior file of up to MaxLines lines (or the default file,  *)
(* or none) and any address text.                                          *)
(***************************************************************************)

StoreLines ==
    { Sec("Contents"), Sec("Authentication"), Sec("DEFAULT"),
      Opt("ScannerAddress", <<" ">> \o AddrB), Opt("UserName", <<"a">>),
      Comment, Junk }

StoreFiles ==
    {Absent, File(DefaultConfig)} \cup {File(t) : t \in Texts(StoreLines, MaxLines)}

StoreInputs ==
    { AddrA, <<" ">> \o AddrA, AddrA \o <<" ">>, DefaultAddress, AddrBad, <<>>, <<"a">> }

InitStore ==
    /\ upc = "call"
    /\ arg \in StoreInputs
    /\ ret = NoRet
    /\ \E f \in StoreFiles : fs = [NoFiles EXCEPT !["base"] = f]
    /\ \E w \in BOOLEAN : dirOk = [AllDirsOk EXCEPT !["primary"] = w]
    /\ UnitIdle

CallWrite ==
    /\ upc = "call"
    /\ LET w == write_scanner_ip(fs, dirOk, "base", arg)
       IN  /\ fs' = w.fs
           /\ ret' = [ok |-> w.ok, val |-> <<>>]
    /\ upc' = "wrote"
    /\ UNCHANGED <<arg, dirOk, profileTEMP, guiVars>>
    /\ UNCHANGED watchVars

CallRead ==
    /\ upc = "wrote"
    /\ ret' = [ret EXCEPT !.val = read_scanner_ip(fs, dirOk, "base")]
    /\ upc' = "read"
    /\ UNCHANGED <<arg, envVars, guiVars>>
    /\ UNCHANGED watchVars

NextStore == CallWrite \/ CallRead

SpecStore == InitStore /\ [][NextStore]_vars

(***************************************************************************)
(* Specification of one call of resolve_kyocera_path, for every state of   *)
(* the four candidate files and the three directories.                     *)
(***************************************************************************)
ConfigDirs == {"primary", "local", "tmp"}

InitResolve ==
    /\ upc = "call"
    /\ arg = <<>>
    /\ ret = NoRet
    /\ \E b \in {Absent, Directory, File(CustomConfig), File(CorruptConfig)},
          i \in {Absent, File(CustomConfig)},
          l \in {Absent, File(CustomConfig), File(CorruptConfig)},
          t \in {Absent, File(CustomConfig)} :
          fs = [NoFiles EXCEPT !["base"] = b, !["base_ini"] = i,
                               !["fallback"] = l, !["temp"] = t]
    /\ \E ok \in SUBSET ConfigDirs : dirOk = [x \in Dirs |-> x \notin ConfigDirs \/ x \in ok]
    /\ UnitIdle

CallResolve ==
    /\ upc = "call"
    /\ LET r == resolve_kyocera_path(fs, dirOk)
       IN  /\ fs' = r.fs
           /\ ret' = [ok |-> ~r.raised, val |-> r.path]
    /\ upc' = "resolved"
    /\ UNCHANGED <<arg, dirOk, profileTEMP, guiVars>>
    /\ UNCHANGED watchVars

NextResolve == CallResolve

SpecResolve == InitResolve /\ [][NextResolve]_vars

(***************************************************************************)
(* Specification of one call of try_copy_remote_to_cache, for every state  *)
(* of the remote file, the share, the cache directory and the cache file,  *)
(* and for a copy that runs to its end or breaks off.                      *)
(***************************************************************************)
InitCopy ==
    /\ upc = "call"
    /\ arg = <<>>
    /\ ret = NoRet
    /\ \E r \in {Absent, Directory} \cup {File(t) : t \in Texts(StoreLines, MaxRemoteLines)},
          c \in {Absent, Directory, File(PresetsOld)} :
          fs = [NoFiles EXCEPT !["remote"] = r, !["cache"] = c]
    /\ \E s \in BOOLEAN, w \in BOOLEAN :
          dirOk = [AllDirsOk EXCEPT !["share"] = s, !["cachedir"] = w]
    /\ UnitIdle

CallCopy ==
    /\ upc = "call"
    /\ \E io \in {"ok", "fail"} :
        LET r == try_copy_remote_to_cache(fs, dirOk, io)
        IN  /\ arg' = <<io>>
            /\ ret' = [ok |-> r.ok, val |-> <<>>]
            /\ fs' = r.fs
    /\ upc' = "copied"
    /\ UNCHANGED <<dirOk, profileTEMP, guiVars>>
    /\ UNCHANGED watchVars

NextCopy == CallCopy

SpecCopy == InitCopy /\ [][NextCopy]_vars

(***************************************************************************)
(* Specification of two calls in a row of load_presets, for preset files   *)
(* of up to MaxBlocks sections (a header and what follows it), a remote    *)
(* file that cannot be opened, and a cache that is absent, sound or        *)
(* damaged; each call's copy into the cache runs to its end or breaks off. *)
(***************************************************************************)
PresetBodies ==
    { <<>>,
      <<Opt("ScannerAddress", <<" ">> \o AddrA)>>,
      <<Opt("scanneraddress", AddrBad)>>,
      <<Junk>>,
      <<Opt("ScannerAddress", AddrB), Junk>>,
      <<Opt("ScannerAddress", AddrA), Opt("scanneraddress", AddrB)>> }

PresetBlocks == { <<Sec(n)>> \o b : n \in {"A", "B", "DEFAULT"}, b \in PresetBodies }

RECURSIVE Flatten(_)
Flatten(parts) == IF parts = <<>> THEN <<>> ELSE Head(parts) \o Flatten(Tail(parts))

PresetFiles ==
    {File(Flatten(t)) : t \in Texts(PresetBlocks, MaxBlocks)}
        \cup {File(<<Opt("ScannerAddress", AddrA)>>)}

CacheDamaged == <<Sec("B"), Opt("ScannerAddress", AddrB), Junk>>

InitLoad ==
    /\ upc = "call"
    /\ arg = <<>>
    /\ ret = NoRet
    /\ \E r \in {Absent} \cup PresetFiles,
          c \in {Absent, File(PresetsOld), File(CacheDamaged)} :
          fs = [NoFiles EXCEPT !["remote"] = r, !["cache"] = c]
    /\ \E s \in BOOLEAN : dirOk = [AllDirsOk EXCEPT !["share"] = s]
    /\ UnitIdle

\* the first call; its snapshot is kept in presets
CallLoad ==
    /\ upc = "call"
    /\ \E io \in {"ok", "fail"} :
        LET lp == load_presets(fs, dirOk, io)
        IN  /\ arg' = <<io>>
            /\ presets' = lp.presets
            /\ fs' = lp.fs
    /\ ret' = [ok |-> TRUE, val |-> NoPresets]
    /\ upc' = "loaded"
    /\ UNCHANGED <<dirOk, profileTEMP, pc, kyocera_ini_path, has_critical_errors,
                   warning_scheduled, var_ip, var_preset, dialog>>
    /\ UNCHANGED watchVars

\* the second call, the files as the first left them; ret keeps the first snapshot
CallReload ==
    /\ upc = "loaded"
    /\ \E io \in {"ok", "fail"} :
        LET lp == load_presets(fs, dirOk, io)
        IN  /\ arg' = Append(arg, io)
            /\ presets' = lp.presets
            /\ fs' = lp.fs
    /\ ret' = [ok |-> TRUE, val |-> presets]
    /\ upc' = "reloaded"
    /\ UNCHANGED <<dirOk, profileTEMP, pc, kyocera_ini_path, has_critical_errors,
                   warning_scheduled, var_ip, var_preset, dialog>>
    /\ UNCHANGED watchVars

NextLoad == CallLoad \/ CallReload

SpecLoad == InitLoad /\ [][NextLoad]_vars

(***************************************************************************)
(* Specification of apply_preset in the running window: the preset file    *)
(* also names one preset " C" and another "C" (configparser keeps the      *)
(* blanks of a section header), the user selects and applies, the file on  *)
(* the share is replaced and the list is refreshed.                        *)
(***************************************************************************)
PresetsNames == <<Sec(" C"), Opt("ScannerAddress", AddrA),
                  Sec("C"), Opt("ScannerAddress", AddrB)>>

ApplyFiles == {Absent, File(PresetsOne), File(PresetsTwo), File(PresetsNames)}

InitApply ==
    /\ upc = "idle"
    /\ arg = <<>>
    /\ ret = NoRet
    /\ \E r \in ApplyFiles, path \in {"base", ":memory:"} :
          LET f0 == [NoFiles EXCEPT !["base"] = File(DefaultConfig), !["remote"] = r]
              rp == refresh_presets(f0, AllDirsOk, "ok", "")
          IN  /\ fs = rp.fs
              /\ presets = rp.presets
              /\ var_preset = rp.var_preset
              /\ kyocera_ini_path = path
              /\ has_critical_errors = (path = ":memory:")
    /\ dirOk = AllDirsOk
    /\ profileTEMP = FALSE
    /\ pc = "running"
    /\ warning_scheduled = FALSE
    /\ var_ip = DefaultAddress
    /\ dialog = "none"
    /\ WatchIdle

\* the environment: the preset file on the share is replaced or removed
RemoteReplace ==
    /\ pc = "running"
    /\ \E f \in ApplyFiles \ {fs["remote"]} : fs' = [fs EXCEPT !["remote"] = f]
    /\ UNCHANGED <<unitVars, dirOk, profileTEMP, guiVars>>
    /\ UNCHANGED watchVars

NextApply ==
    \/ RefreshPresets
    \/ SelectPreset
    \/ ApplyPreset
    \/ Dismiss
    \/ RemoteReplace

SpecApply == InitApply /\ [][NextApply]_vars

(***************************************************************************)
(* Specification of the watcher thread beside the event loop: the state    *)
(* after KyoceraGUI.__init__ (thread started, mainloop() not yet entered), *)
(* the watcher's loop statement by statement, the callbacks the event loop *)
(* runs, on_close and the end of the process. Tk calls made on the watcher *)
(* thread are handed to the main thread and raise when that thread is not  *)
(* in mainloop() (the threaded Tcl build).                                 *)
(***************************************************************************)
max_consecutive_errors == 5

\* GUILogHandler.emit: the record is appended, the deque dropping the oldest
\* one at capacity
emit_records(n) == IF n < MaxLog THEN n + 1 ELSE n

\* GUILogHandler.emit: the event-log window's callback asks the event loop
\* for update_logs; when the call raises, emit swallows the exception
emit_callbacks(q, window, dispatching) ==
    IF window /\ dispatching /\ q["update_logs"] < MaxQueue
    THEN [q EXCEPT !["update_logs"] = @ + 1] ELSE q

\* what os.path.getmtime can answer
StatOutcomes(f) ==
    IF isfile(f, "remote") THEN {"ok", "PermissionError"} ELSE {"OSError"}

InitWatch ==
    /\ upc = "idle"
    /\ arg = <<>>
    /\ ret = NoRet
    /\ \E r \in RemoteFiles, c \in {Absent, File(PresetsOld)}, io \in {"ok", "fail"} :
          LET f0 == [NoFiles EXCEPT !["base"] = File(DefaultConfig),
                                    !["remote"] = r, !["cache"] = c]
              rp == refresh_presets(f0, AllDirsOk, io, "")
          IN  /\ fs = rp.fs
              /\ presets = rp.presets
              /\ var_preset = rp.var_preset
    /\ dirOk = AllDirsOk
    /\ profileTEMP = FALSE
    /\ pc = "started"
    /\ kyocera_ini_path = "base"
    /\ has_critical_errors = FALSE
    /\ warning_scheduled = FALSE
    /\ var_ip = DefaultAddress
    /\ dialog = "none"
    /\ stop_flag = FALSE
    /\ var_auto = TRUE
    /\ queue = NoTasks
    /\ mtime = 1
    /\ wpc = "check"
    /\ last_ts = 0
    /\ consecutive_errors = 0
    /\ it = NoIteration
    /\ log_records = 0
    /\ log_window = FALSE

\* KyoceraGUI().mainloop()
EnterMainloop ==
    /\ pc = "started"
    /\ pc' = "running"
    /\ UNCHANGED <<unitVars, envVars, kyocera_ini_path, has_critical_errors,
                   warning_scheduled, var_ip, var_preset, presets, dialog, watchVars>>

\* while not self.stop_flag.is_set()
WCheck ==
    /\ wpc = "check"
    /\ wpc' = IF stop_flag THEN "done" ELSE "auto"
    /\ UNCHANGED <<unitVars, envVars, guiVars>>
    /\ UNCHANGED <<stop_flag, var_auto, queue, mtime, last_ts, consecutive_errors,
                   it, log_records, log_window>>

\* the watcher that does not look at the checkbox
WReadAutoIgnored ==
    /\ wpc = "auto"
    /\ IF pc = "running"
       THEN /\ wpc' = "stat"
            /\ it' = [it EXCEPT !.auto = var_auto]
       ELSE /\ wpc' = "crashed"
            /\ it' = it
    /\ UNCHANGED <<unitVars, envVars, guiVars>>
    /\ UNCHANGED <<stop_flag, var_auto, queue, mtime, last_ts, consecutive_errors,
                   log_records, log_window>>

\* if self.var_auto.get(): outside the try, so what it raises ends the thread
WReadAuto ==
    /\ wpc = "auto"
    /\ IF pc = "running"
       THEN /\ wpc' = IF var_auto THEN "stat" ELSE "sleep"
            /\ it' = [it EXCEPT !.auto = var_auto]
       ELSE /\ wpc' = "crashed"
            /\ it' = it
    /\ UNCHANGED <<unitVars, envVars, guiVars>>
    /\ UNCHANGED <<stop_flag, var_auto, queue, mtime, last_ts, consecutive_errors,
                   log_records, log_window>>

\* ts = os.path.getmtime(...); if ts != last_ts: last_ts = ts; and the two
\* except branches for what getmtime raises
WStat ==
    /\ wpc = "stat"
    /\ UNCHANGED <<unitVars, envVars, guiVars>>
    /\ UNCHANGED <<stop_flag, var_auto, mtime, log_window>>
    /\ \E e \in StatOutcomes(fs) :
        IF e = "ok"
        THEN /\ it' = [it EXCEPT !.stat = "ok", !.differs = (mtime # last_ts)]
             /\ IF mtime # last_ts
                THEN /\ last_ts' = mtime
                     /\ wpc' = "sched"
                     /\ UNCHANGED consecutive_errors
                ELSE /\ consecutive_errors' = 0
                     /\ wpc' = "sleep"
                     /\ UNCHANGED last_ts
             /\ UNCHANGED <<queue, log_records>>
        ELSE /\ it' = [it EXCEPT !.stat = "err"]
             /\ consecutive_errors' =
                    IF consecutive_errors + 1 >= max_consecutive_errors THEN 0
                    ELSE consecutive_errors + 1
             /\ log_records' =
                    IF consecutive_errors + 1 >= max_consecutive_errors
                    THEN emit_records(emit_records(log_records))
                    ELSE emit_records(log_records)
             /\ queue' = emit_callbacks(queue, log_window, pc = "running")
             /\ wpc' = "sleep"
             /\ UNCHANGED last_ts

\* the watcher whose after() call never reaches the event loop
WScheduleDropped ==
    /\ wpc = "sched"
    /\ UNCHANGED <<unitVars, envVars, guiVars>>
    /\ UNCHANGED <<stop_flag, var_auto, mtime, last_ts, log_window, queue, it>>
    /\ consecutive_errors' = IF pc = "running" THEN 0 ELSE consecutive_errors
    /\ log_records' = emit_records(log_records)
    /\ wpc' = "sleep"

\* self.after(0, self.refresh_presets); logger.info; consecutive_errors = 0;
\* and the last except branch for what after() raises
WSchedule ==
    /\ wpc = "sched"
    /\ UNCHANGED <<unitVars, envVars, guiVars>>
    /\ UNCHANGED <<stop_flag, var_auto, mtime, last_ts, log_window>>
    /\ IF pc = "running"
       THEN /\ queue["refresh"] < MaxQueue
            /\ queue' = emit_callbacks([queue EXCEPT !["refresh"] = @ + 1],
                                       log_window, TRUE)
            /\ it' = [it EXCEPT !.enq = TRUE]
            /\ consecutive_errors' = 0
       ELSE /\ queue' = queue
            /\ UNCHANGED <<it, consecutive_errors>>
    /\ log_records' = emit_records(log_records)
    /\ wpc' = "sleep"

\* time.sleep(30)
WSleep ==
    /\ wpc = "sleep"
    /\ wpc' = "check"
    /\ it' = NoIteration
    /\ UNCHANGED <<unitVars, envVars, guiVars>>
    /\ UNCHANGED <<stop_flag, var_auto, queue, mtime, last_ts, consecutive_errors,
                   log_records, log_window>>

\* the event loop runs a pending refresh_presets (also while a message box
\* is open); load_presets and refresh_presets log
RunRefresh ==
    /\ pc = "running"
    /\ queue["refresh"] > 0
    /\ UNCHANGED <<unitVars, dirOk, profileTEMP, pc, kyocera_ini_path,
                   has_critical_errors, warning_scheduled, var_ip, dialog>>
    /\ UNCHANGED <<stop_flag, var_auto, mtime, wpc, last_ts, consecutive_errors,
                   it, log_window>>
    /\ \E io \in {"ok", "fail"} :
        LET rp == refresh_presets(fs, dirOk, io, var_preset)
        IN  /\ presets' = rp.presets
            /\ var_preset' = rp.var_preset
            /\ fs' = rp.fs
    /\ queue' = emit_callbacks([queue EXCEPT !["refresh"] = @ - 1], log_window, TRUE)
    /\ log_records' = emit_records(log_records)

\* the event loop runs a pending update_logs of the event-log window
RunUpdateLogs ==
    /\ pc = "running"
    /\ queue["update_logs"] > 0
    /\ queue' = [queue EXCEPT !["update_logs"] = @ - 1]
    /\ UNCHANGED <<unitVars, envVars, guiVars>>
    /\ UNCHANGED <<stop_flag, var_auto, mtime, wpc, last_ts, consecutive_errors,
                   it, log_records, log_window>>

\* the user clicks the auto-refresh checkbox
ToggleAuto ==
    /\ pc = "running"
    /\ dialog = "none"
    /\ var_auto' = ~var_auto
    /\ UNCHANGED <<unitVars, envVars, guiVars>>
    /\ UNCHANGED <<stop_flag, queue, mtime, wpc, last_ts, consecutive_errors,
                   it, log_records, log_window>>

\* KyoceraGUI._show_event_log: gui_handler.add_callback(on_new_log)
ShowEventLog ==
    /\ pc = "running"
    /\ dialog = "none"
    /\ ~log_window
    /\ log_window' = TRUE
    /\ UNCHANGED <<unitVars, envVars, guiVars>>
    /\ UNCHANGED <<stop_flag, var_auto, queue, mtime, wpc, last_ts,
                   consecutive_errors, it, log_records>>

\* mainloop() has returned and the main thread ends: the watcher is a daemon
\* thread nobody joins, so the interpreter stops it wherever it is
ProcessExit ==
    /\ pc = "closed"
    /\ pc' = "exited"
    /\ wpc' = IF wpc \in {"done", "crashed"} THEN wpc ELSE "killed"
    /\ UNCHANGED <<unitVars, envVars, kyocera_ini_path, has_critical_errors,
                   warning_scheduled, var_ip, var_preset, presets, dialog>>
    /\ UNCHANGED <<stop_flag, var_auto, queue, mtime, last_ts, consecutive_errors,
                   it, log_records, log_window>>

\* the environment: the preset file on the share is rewritten or removed
RemoteTouch ==
    /\ pc \in {"started", "running"}
    /\ mtime < MaxTs
    /\ mtime' = mtime + 1
    /\ \E f \in RemoteFiles \ {fs["remote"]} : fs' = [fs EXCEPT !["remote"] = f]
    /\ UNCHANGED <<unitVars, dirOk, profileTEMP, guiVars>>
    /\ UNCHANGED <<stop_flag, var_auto, queue, wpc, last_ts, consecutive_errors,
                   it, log_records, log_window>>

NextWatch ==
    \/ EnterMainloop
    \/ WCheck
    \/ WReadAuto
    \/ WStat
    \/ WSchedule
    \/ WSleep
    \/ RunRefresh
    \/ RunUpdateLogs
    \/ ToggleAuto
    \/ ShowEventLog
    \/ Close
    \/ ProcessExit
    \/ RemoteTouch

SpecWatcher == InitWatch /\ [][NextWatch]_vars

\* The same under scheduling: the main thread goes on into mainloop(), the
\* watcher thread is not starved, and the event loop gets to the reload
\* tasks in its queue. What the user and the share do is left free.
\* RunRefresh can be taken exactly when the event loop runs and holds a
\* reload task (it then always changes the queue); weak fairness of
\* RunRefresh with its enabling condition written out
RunRefreshFair ==
    \/ []<>(~(pc = "running" /\ queue["refresh"] > 0))
    \/ []<><<RunRefresh>>_vars

WatcherFairness ==
    /\ WF_vars(EnterMainloop)
    /\ WF_vars(WCheck)
    /\ WF_vars(WReadAuto)
    /\ WF_vars(WStat)
    /\ WF_vars(WSchedule)
    /\ WF_vars(WSleep)
    /\ RunRefreshFair

SpecWatcherLive == InitWatch /\ [][NextWatch]_vars /\ WatcherFairness

(***************************************************************************)
(* C1: what the validator accepts.                                         *)
(***************************************************************************)
RECURSIVE SplitDots(_)
SplitDots(s) ==
    IF \A i \in 1..Len(s) : s[i] # "." THEN <<s>>
    ELSE LET d == CHOOSE i \in 1..Len(s) : s[i] = "." /\ \A j \in 1..i - 1 : s[j] # "."
         IN  <<SubSeq(s, 1, d - 1)>> \o SplitDots(SubSeq(s, d + 1, Len(s)))

RECURSIVE DecimalValue(_)
DecimalValue(p) ==
    IF p = <<>> THEN 0
    ELSE 10 * DecimalValue(SubSeq(p, 1, Len(p) - 1)) + DigitValue[p[Len(p)]]

AllDigits(p) == Len(p) >= 1 /\ \A i \in 1..Len(p) : IsDigit(p[i])

\* a decimal integer in 0..255, written with the digits 0 to 9
IntegerInRange(p) ==
    /\ Len(p) >= 1
    /\ \A i \in 1..Len(p) : p[i] \in AsciiDigits
    /\ DecimalValue(p) \in 0..255

FourIntegersInRange(s) ==
    LET parts == SplitDots(s)
    IN  Len(parts) = 4 /\ \A i \in 1..4 : IntegerInRange(parts[i])

\* one or two digits, or three digits 100..255 whose leading 1 or 2 and whose
\* range-limited digits are ASCII
PatternOctet(p) ==
    /\ AllDigits(p)
    /\ \/ Len(p) \in {1, 2}
       \/ /\ Len(p) = 3
          /\ p[1] \in {"1", "2"}
          /\ p[1] = "2" => p[2] \in AsciiDigits
          /\ (p[1] = "2" /\ p[2] = "5") => p[3] \in AsciiDigits
          /\ DecimalValue(p) \in 100..255

FourPatternOctets(s) ==
    LET parts == SplitDots(s)
    IN  Len(parts) = 4 /\ \A i \in 1..4 : PatternOctet(parts[i])

\* C1: is_valid_ip(s) holds iff s trimmed is four dot-separated decimal
\* integers, each in 0..255, and nothing else.
C1_AcceptsExactlyIntegersInRange ==
    upc = "done" => (ret.ok <=> FourIntegersInRange(Strip(arg)))

\* What the pattern accepts: is_valid_ip(s) holds iff s trimmed is four
\* dot-separated octets, each one or two digits (a leading zero allowed) or
\* three digits denoting 100..255, where a digit is any character \d matches.
C1_AcceptsExactlyPatternOctets ==
    upc = "done" => (ret.ok <=> FourPatternOctets(Strip(arg)))

\* a padded address was trimmed and accepted
C1_Witness ==
    /\ upc = "done"
    /\ ret.ok
    /\ Len(arg) > Len(Strip(arg))
    /\ \E i \in 1..Len(arg) : arg[i] = "5"

(***************************************************************************)
(* C2: round trip.                                                         *)
(***************************************************************************)
\* C2 as stated: for every address that passes the validator, a successful
\* write followed by a read returns exactly that address. Refuted by
\* " 10.0.0.1": it passes is_valid_ip, is stored as given and read back trimmed.
C2_RoundTripAnyValid ==
    (upc = "read" /\ ret.ok /\ is_valid_ip(arg)) => ret.val = arg

\* C2 amended: for every valid address without surrounding whitespace (how
\* save_ip passes it) and every prior file, a successful write followed by a
\* read returns exactly that address.
C2_RoundTripTrimmed ==
    (upc = "read" /\ ret.ok /\ is_valid_ip(arg) /\ arg = Strip(arg)) => ret.val = arg

\* C2 witness: a round trip over a prior file that had no [Contents] section.
C2_Witness ==
    /\ upc = "read"
    /\ ret.ok
    /\ arg = AddrA
    /\ ret.val = AddrA
    /\ \E i \in 1..Len(fs["base"].data) : fs["base"].data[i] = Sec("Authentication")
    /\ fs["base"].data[Len(fs["base"].data) - 2] = Sec("Contents")

(***************************************************************************)
(* C3: what a write leaves alone.                                          *)
(***************************************************************************)
\* the <<section, key as spelled, value>> entries of a file, and its sections
RECURSIVE Entries(_, _)
Entries(lines, cur) ==
    IF lines = <<>> THEN {}
    ELSE LET l == Head(lines)
         IN  CASE l.t = "sec" -> Entries(Tail(lines), l.name)
               [] l.t = "opt" -> {<<cur, l.key, Strip(l.val)>>} \cup Entries(Tail(lines), cur)
               [] OTHER -> Entries(Tail(lines), cur)

SectionNames(lines) == {lines[i].name : i \in {j \in 1..Len(lines) : lines[j].t = "sec"}}

IsScannerAddress(e) == e[1] = "Contents" /\ optionxform(e[2]) = "scanneraddress"

\* C3 as stated: a successful write changes only Contents.ScannerAddress; every
\* other section, key name and key value of the file is present unchanged
\* afterwards. Refuted by a prior "UserName=a": it comes back as "username".
C3_WritePreservesOtherEntries ==
    [][(upc = "call" /\ upc' = "wrote" /\ ret'.ok)
        => /\ SectionNames(fs["base"].data) \subseteq SectionNames(fs'["base"].data)
           /\ \A e \in Entries(fs["base"].data, "") :
                 ~IsScannerAddress(e) => e \in Entries(fs'["base"].data, "")]_vars

(***************************************************************************)
(* C4: an address the validator rejects.                                   *)
(***************************************************************************)
\* C4 as stated: write_scanner_ip called with an address that does not pass
\* the validator fails and leaves the file as it was. Refuted by "999.1.1.1"
\* on a writable file: write_scanner_ip does not validate and stores it.
C4_WriteRejectsInvalid ==
    [][(upc = "call" /\ upc' = "wrote" /\ ~is_valid_ip(arg))
        => (~ret'.ok /\ fs' = fs)]_vars

(***************************************************************************)
(* C6: the order of the locations.                                         *)
(***************************************************************************)
\* creating the default file at path can succeed
Creatable(f, d, path) == f[path].kind = "absent" /\ d[DirOf(path)]

\* the location the fixed order designates, "" when there is none
ExpectedLocation(f, d) ==
    CASE isfile(f, "base") -> "base"
      [] isfile(f, "base_ini") -> "base_ini"
      [] Creatable(f, d, "base") -> "base"
      [] exists(f, "fallback") \/ Creatable(f, d, "fallback") -> "fallback"
      [] exists(f, "temp") \/ Creatable(f, d, "temp") -> "temp"
      [] OTHER -> ""

ConfigPaths == {"base", "base_ini", "fallback", "temp"}

\* every address of the preset snapshot passes is_valid_ip
PresetsValid == \A n \in DOMAIN presets : is_valid_ip(presets[n])

\* a step that rewrites a configuration file leaves a valid address in it
WritesValid ==
    \A p \in ConfigPaths :
        fs'[p] # fs[p] => is_valid_ip(read_scanner_ip(fs', dirOk', p))

\* save_ip on an entry that is no valid address shows the warning and writes nothing
InvalidSaveRejected ==
    \/ dialog' = "warning_invalid" /\ fs' = fs
    \/ ~SaveIp
    \/ is_valid_ip(Strip(var_ip))

\* load_presets on a file with a valid and an invalid section keeps the first
\* and leaves out the second
InvalidPresetDropped ==
    \/ DOMAIN presets' = {"A"}
    \/ fs["remote"] # File(PresetsOne)
    \/ ~RefreshPresets

\* C5: through startup, save_ip, apply_preset and refresh_presets, every
\* address written into a configuration file and every address of the preset
\* snapshot passes is_valid_ip; saving an invalid address shows a warning and
\* writes nothing; a preset section with an invalid address is left out.
C5_OnlyValidAddresses ==
    [][/\ presets' # presets => PresetsValid'
       /\ WritesValid
       /\ InvalidSaveRejected
       /\ InvalidPresetDropped]_vars

C5_Witness ==
    /\ pc = "running"
    /\ fs["remote"] = File(PresetsOne)
    /\ DOMAIN presets = {"A"}
    /\ var_ip = AddrA
    /\ dialog = "info_saved"
    /\ kyocera_ini_path = "base"
    /\ read_scanner_ip(fs, dirOk, "base") = AddrA

(***************************************************************************)
(* C7: no location at all.                                                 *)
(***************************************************************************)
\* no file exists and none of the three can be created
AllTiersFail(f, d) ==
    /\ ~isfile(f, "base") /\ ~isfile(f, "base_ini")
    /\ ~Creatable(f, d, "base")
    /\ ~exists(f, "fallback") /\ ~Creatable(f, d, "fallback")
    /\ ~exists(f, "temp") /\ ~Creatable(f, d, "temp")

ConfigFilesUnchanged == \A p \in ConfigPaths : fs'[p] = fs[p]

\* C7: when no file exists and creation fails at all three tiers,
\* resolve_kyocera_path raises; __init__ then shows the error, goes on to run
\* with kyocera_ini_path = ":memory:" and has_critical_errors set, and from
\* then on no step (save_ip and apply_preset included) changes a
\* configuration file, even after a directory has become writable again.
C7_NoLocationIsReadOnly ==
    /\ [][(pc = "init" /\ pc' # "init" /\ AllTiersFail(fs, dirOk)) =>
            /\ resolve_kyocera_path(fs, dirOk).raised
            /\ pc' = "running"
            /\ kyocera_ini_path' = ":memory:"
            /\ has_critical_errors'
            /\ dialog' = "error_critical"
            /\ ConfigFilesUnchanged]_vars
    /\ [][kyocera_ini_path = ":memory:" =>
            /\ kyocera_ini_path' = ":memory:"
            /\ ConfigFilesUnchanged]_vars

C7_Witness ==
    /\ pc = "running"
    /\ kyocera_ini_path = ":memory:"
    /\ has_critical_errors
    /\ dirOk["primary"]
    /\ var_ip = AddrA
    /\ dialog = "warning_readonly"
    /\ \A p \in ConfigPaths : fs[p] = Absent

(***************************************************************************)
(* C8: the file in TEMP.                                                   *)
(***************************************************************************)
\* no file exists, creation fails at the first two tiers and succeeds in TEMP
OnlyTempSucceeds(f, d) ==
    /\ ~isfile(f, "base") /\ ~isfile(f, "base_ini")
    /\ ~Creatable(f, d, "base")
    /\ ~exists(f, "fallback") /\ ~Creatable(f, d, "fallback")
    /\ Creatable(f, d, "temp")

\* C8: when no configuration file exists and creation fails at the primary
\* and the local tier but succeeds in TEMP, __init__ ends with
\* kyocera_ini_path the TEMP file, that file newly created with the default
\* payload, read_scanner_ip on it (and the entry) giving 192.168.1.1,
\* has_critical_errors set and the startup warning scheduled.
C8_TempTierIsDegraded ==
    [][(pc = "init" /\ pc' # "init" /\ OnlyTempSucceeds(fs, dirOk)) =>
         /\ resolve_kyocera_path(fs, dirOk).path = "temp"
         /\ kyocera_ini_path' = "temp"
         /\ fs'["temp"] = File(DefaultConfig)
         /\ read_scanner_ip(fs', dirOk', "temp") = DefaultAddress
         /\ var_ip' = DefaultAddress
         /\ has_critical_errors'
         /\ warning_scheduled']_vars

C8_Witness ==
    /\ pc = "running"
    /\ kyocera_ini_path = "temp"
    /\ ~profileTEMP
    /\ fs["temp"] = File(DefaultConfig)
    /\ var_ip = DefaultAddress
    /\ has_critical_errors
    /\ warning_scheduled

(***************************************************************************)
(* C9: writes while has_critical_errors is set.                            *)
(***************************************************************************)
\* C9 as stated: while has_critical_errors is set no step changes a
\* configuration file.
C9_DegradedNeverWrites ==
    [][has_critical_errors => ConfigFilesUnchanged]_vars

\* C9: while has_critical_errors is set, the only configuration file a step
\* changes is the resolved one, kyocera_ini_path; with no resolved location
\* (":memory:") nothing is written, with the emergency location in use
\* save_ip and apply_preset do write to it.
C9_DegradedWritesOnlyResolved ==
    [][has_critical_errors =>
         \A p \in ConfigPaths : fs'[p] # fs[p] => p = kyocera_ini_path]_vars

C9_Witness ==
    /\ pc = "running"
    /\ has_critical_errors
    /\ kyocera_ini_path = "temp"
    /\ dialog = "info_saved"
    /\ read_scanner_ip(fs, dirOk, "temp") = AddrA

(***************************************************************************)
(* C10: the copy into the cache.                                           *)
(***************************************************************************)
\* the remote file can be read to its end
RemoteReachable(f, d, io) == isfile(f, "remote") /\ d["share"] /\ io = "ok"

\* C10: try_copy_remote_to_cache returns a boolean in every case; false when
\* the remote file cannot be reached (it is no file, cannot be opened, or the
\* copy breaks off), when the cache directory cannot be made, or when the
\* cache file cannot be written; true in every other case, and then the cache
\* file holds exactly the remote file's data.
C10_CopyResult ==
    [][(upc = "call" /\ upc' = "copied") =>
         LET io == arg'[1]
             listed == \/ ~RemoteReachable(fs, dirOk, io)
                       \/ ~dirOk["cachedir"]
                       \/ fs["cache"].kind = "dir"
         IN  /\ ret'.ok \in BOOLEAN
             /\ ret'.ok = ~listed
             /\ ret'.ok => /\ fs'["cache"] = File(fs["remote"].data)
                           /\ fs'["remote"] = fs["remote"]]_vars

C10_Witness ==
    /\ upc = "copied"
    /\ ret.ok
    /\ fs["remote"].kind = "file"
    /\ Len(fs["remote"].data) > 0
    /\ fs["cache"] = fs["remote"]

(***************************************************************************)
(* C11 to C15: what load_presets returns.                                  *)
(***************************************************************************)
\* the file at path is there, opens, and configparser reads it without error
ReadsCleanly(f, d, path) ==
    /\ CanOpenForRead(f, d, path)
    /\ cfg_read(EmptyCfg, f, d, path).err = "none"

\* the snapshot the file at path gives when it is parsed by itself
ParsedAlone(f, d, path) ==
    IF isfile(f, path) THEN ParsePresets(cfg_read(EmptyCfg, f, d, path).cfg)
    ELSE NoPresets

FirstLoad == upc = "call" /\ upc' = "loaded"

\* C11: when the remote preset file is not there and the cache file is a
\* sound preset file, load_presets returns exactly what the cache file gives
\* when parsed, and leaves the files alone.
C11_FallsBackToCache ==
    [][(FirstLoad /\ ~isfile(fs, "remote") /\ ReadsCleanly(fs, dirOk, "cache")) =>
         /\ presets' = ParsedAlone(fs, dirOk, "cache")
         /\ fs' = fs]_vars

C11_Witness ==
    /\ upc = "loaded"
    /\ fs["remote"] = Absent
    /\ fs["cache"] = File(PresetsOld)
    /\ DOMAIN presets = {"A"}
    /\ presets["A"] = DefaultAddress

\* C12: a snapshot has one source. When the remote file is there but its read
\* fails (it cannot be opened, or configparser raises on it) the snapshot is
\* what the cache file gives alone; when the remote read succeeds the snapshot
\* is what the remote file gives alone.
C12_OneSource ==
    [][(FirstLoad /\ isfile(fs, "remote")) =>
         IF ReadsCleanly(fs, dirOk, "remote")
         THEN presets' = ParsedAlone(fs, dirOk, "remote")
         ELSE presets' = ParsedAlone(fs, dirOk, "cache")]_vars

\* C13: when the read of the remote file fails and the read of the cache file
\* fails (or there is no cache file), load_presets returns an empty snapshot.
C13_BothFailGivesEmpty ==
    [][(FirstLoad /\ ~ReadsCleanly(fs, dirOk, "remote")
                  /\ ~ReadsCleanly(fs, dirOk, "cache")) =>
         presets' = NoPresets]_vars

\* the sections other than DEFAULT that hold a ScannerAddress key of their
\* own whose trimmed value passes is_valid_ip, with that value
OwnValidAddresses(lines) ==
    LET own == {e \in Entries(lines, "") :
                   /\ e[1] \notin {"", "DEFAULT"}
                   /\ optionxform(e[2]) = "scanneraddress"
                   /\ is_valid_ip(e[3])}
    IN  [n \in {e[1] : e \in own} |-> (CHOOSE e \in own : e[1] = n)[3]]

\* C14: the snapshot built from a preset file holds name -> address exactly
\* for the sections that themselves hold a ScannerAddress key whose trimmed
\* value passes is_valid_ip.
C14_OwnKeyOnly ==
    [][(FirstLoad /\ ReadsCleanly(fs, dirOk, "remote")) =>
         presets' = OwnValidAddresses(fs["remote"].data)]_vars

\* C15: a second load_presets with the remote file unchanged returns the same
\* name -> address pairs as the first, whatever each call's copy into the
\* cache did.
C15_ReloadIdempotent ==
    upc = "reloaded" => presets = ret.val

C15_Witness ==
    /\ upc = "reloaded"
    /\ arg = <<"fail", "ok">>
    /\ DOMAIN presets = {"A", "B"}
    /\ presets = ret.val
    /\ fs["cache"] = fs["remote"]

(***************************************************************************)
(* C16: the cache file as a mirror of the remote file.                     *)
(***************************************************************************)
\* C16: a try_copy_remote_to_cache that returns false leaves the cache file
\* as it was.
C16_FailedRefreshKeepsCache ==
    [][(upc = "call" /\ upc' = "copied" /\ ~ret'.ok) =>
         fs'["cache"] = fs["cache"]]_vars

(***************************************************************************)
(* C17 to C20: the watcher thread.                                         *)
(***************************************************************************)
\* a statement of the watcher thread is executed
WatcherStep == wpc' # wpc /\ pc' = pc

\* C17: the only effect a statement of the watcher has outside the watcher's
\* own locals is one more reload task in the event loop's queue.
C17_WatcherOnlyEnqueuesReload ==
    [][WatcherStep =>
         /\ UNCHANGED <<fs, presets, kyocera_ini_path, var_ip, var_preset, var_auto,
                        dialog, stop_flag, log_window, log_records>>
         /\ queue' \in {queue, [queue EXCEPT !["refresh"] = @ + 1]}]_vars

\* The part of C17 that holds: no statement of the watcher changes the
\* snapshot, a file or a widget variable, and the snapshot changes only in a
\* step of the event loop that takes a reload task off the queue.
WatcherLeavesSnapshotAndFiles ==
    [][/\ WatcherStep =>
            UNCHANGED <<fs, presets, kyocera_ini_path, var_ip, var_preset, var_auto,
                        dialog>>
       /\ (presets' # presets \/ fs["cache"] # fs'["cache"]) =>
            /\ wpc' = wpc
            /\ pc = "running"
            /\ queue["refresh"] > 0]_vars

\* C18: the watcher thread ends by an exception only when the stop flag is
\* set.
C18_FailureNeverEndsWatcher ==
    wpc = "crashed" => stop_flag

\* C19: when the process has ended, the watcher had left its loop by itself.
C19_WatcherExitsOnItsOwn ==
    pc = "exited" => wpc = "done"

\* The part of C19 that holds: the flag is tested once per iteration, and an
\* iteration begins only on a test that found the flag clear.
WatcherStartsNoIterationAfterStop ==
    [][/\ (wpc = "check" /\ stop_flag /\ WatcherStep) => wpc' = "done"
       /\ (wpc' = "auto" /\ wpc # "auto") => (wpc = "check" /\ ~stop_flag)
       /\ (wpc # "check" /\ wpc' = "check") => wpc = "sleep"]_vars

\* the iteration ends: the watcher reaches time.sleep
IterationEnds == wpc # "sleep" /\ wpc' = "sleep"

\* the step puts a reload task into the event loop's queue
Enqueues == queue'["refresh"] = queue["refresh"] + 1

\* the checkbox was set when read, getmtime answered, and its answer was not
\* last_ts
ChangeSeen == it'.auto /\ it'.stat = "ok" /\ it'.differs

\* C20 as stated: an iteration enqueues a reload if and only if auto-refresh
\* was enabled when read, the stat succeeded and the time differed from
\* last_ts; with auto-refresh disabled it neither stats nor enqueues.
C20_EnqueueIffChangeSeen ==
    [][/\ Enqueues => (IterationEnds /\ wpc = "sched")
       /\ IterationEnds =>
            /\ Enqueues <=> ChangeSeen
            /\ ~it'.auto => (it'.stat = "none" /\ ~Enqueues)]_vars

\* C20, amended: as above, but a change that was seen is enqueued only when
\* the window has not been closed in the meantime.
C20_EnqueueIffChangeSeenAndOpen ==
    [][/\ Enqueues => (IterationEnds /\ wpc = "sched")
       /\ IterationEnds =>
            /\ Enqueues => ChangeSeen
            /\ (ChangeSeen /\ ~stop_flag) => Enqueues
            /\ ~it'.auto => (it'.stat = "none" /\ ~Enqueues)]_vars

C20_Witness ==
    /\ wpc = "sleep"
    /\ it.enq
    /\ last_ts = MaxTs
    /\ queue["refresh"] = 1
    /\ ~stop_flag

(***************************************************************************)
(* C22: last_ts and the reload request.                                    *)
(***************************************************************************)
\* C22: when an iteration of the watcher that took a new modification time
\* into last_ts has ended, it has put the reload for it into the event
\* loop's queue.
C22_SeenOnlyWithReload ==
    (wpc = "sleep" /\ it.differs) => it.enq

(***************************************************************************)
(* C21: a change of the remote file reaches the snapshot.                  *)
(***************************************************************************)
\* the watcher thread is in its loop
WatcherRuns == wpc \in {"check", "auto", "stat", "sched", "sleep"}

\* the watcher has taken the file's time into last_ts, the reload it asked
\* for has been run, and the snapshot is what the remote file gives
ChangeLoaded ==
    /\ last_ts = mtime
    /\ wpc # "sched"
    /\ queue["refresh"] = 0
    /\ presets = ParsedAlone(fs, dirOk, "remote")

\* the watching has ended or was switched off, or the share did not answer
WatchingBroken ==
    \/ stop_flag
    \/ ~var_auto
    \/ ~WatcherRuns
    \/ it.stat = "err"

\* C21: with the watcher in its loop, auto-refresh set and the stop flag
\* clear, a modification time of the remote file that the watcher has not
\* seen yet leads to the reload having run and the snapshot being the parsed
\* content of the remote file as it then is, unless the share fails to
\* answer, auto-refresh is switched off or the window is closed before that.
C21_ChangeIsLoaded ==
    (isfile(fs, "remote") /\ last_ts # mtime /\ ~WatchingBroken)
        ~> (ChangeLoaded \/ WatchingBroken)

C21_Witness ==
    /\ pc = "running"
    /\ ~WatchingBroken
    /\ mtime = 2
    /\ wpc = "sleep"
    /\ it.enq
    /\ DOMAIN presets # {}
    /\ ChangeLoaded

(***************************************************************************)
(* C23: what apply_preset writes.                                          *)
(***************************************************************************)
\* apply_preset runs: it is the only handler here that ends in a message box
ApplyStep == dialog = "none" /\ dialog' # "none"

\* C23: an apply_preset that changes the configuration file leaves in it the
\* address the snapshot holds for the selected name; with a selected name
\* that is empty or no key of the snapshot it changes neither the file nor
\* the address entry.
C23_AppliesSelectedOnly ==
    [][ApplyStep =>
         /\ fs' # fs =>
              /\ var_preset \in DOMAIN presets
              /\ read_scanner_ip(fs', dirOk, kyocera_ini_path) = presets[var_preset]
         /\ (var_preset = "" \/ var_preset \notin DOMAIN presets) =>
              (fs' = fs /\ var_ip' = var_ip)]_vars

\* What holds instead: the name looked up is the selection with its blanks
\* removed.
AppliesStrippedName ==
    [][ApplyStep =>
         LET name == StripName(var_preset)
         IN  /\ fs' # fs =>
                  /\ name \in DOMAIN presets
                  /\ read_scanner_ip(fs', dirOk, kyocera_ini_path) = presets[name]
             /\ (name = "" \/ name \notin DOMAIN presets) =>
                  (fs' = fs /\ var_ip' = var_ip)]_vars

====
